---- MODULE Spec2Model ----
(***************************************************************************)
(* jell::inplace_vector<T, N>: a fixed-capacity vector with in-place       *)
(* storage.  The model follows src/src/detail/storage.hpp (storage),       *)
(* src/src/detail/attic.hpp (attic) and src/src/inplace_vector.hpp (the    *)
(* container).                                                             *)
(*                                                                         *)
(* A slot of the byte buffer data_ is Raw (no object lives there), or it   *)
(* holds an element: a value of Vals, DefaultVal (T{}), or MovedFrom (the  *)
(* state a non-trivial element is left in by std::move).  An object's      *)
(* lifetime is tracked per slot, so that a destructor that runs on a slot  *)
(* without an object (dd), a constructor that runs on a slot whose object  *)
(* was never destroyed (ow), and a write past the buffer (oob) are seen.   *)
(*                                                                         *)
(* A call is one action (the positional insert is a sequence of steps:     *)
(* attic construction, fill, retrieve).  It ends in pc = "done" with the   *)
(* arguments and the state before the call in `call` and the outcome in    *)
(* `res`; Return hands control back to the caller.                         *)
(***************************************************************************)
EXTENDS Integers, Sequences, FiniteSets, TLC

\* ---- bounds of the model ----
MaxN == 3
MaxVal == 2
MaxIns == 2
MaxSizeT == 7

\* ---- slot contents ----
Raw == -2
MovedFrom == -1
DefaultVal == 0

\* the values an element is constructed from; T{} is one of them
Vals == DefaultVal..(MaxVal - 1)
Capacities == 0..MaxN

VARIABLES
    N,          \* template parameter N: the capacity
    trivial,    \* T is trivially copyable and destructible (no observable ctor/dtor)
    constructed,\* the inplace_vector object exists
    storage_,   \* inplace_vector::storage_ : [data_, size_] and the lifetime flags dd, ow, oob
    other,      \* a second inplace_vector<T, N> (source of copy/move, peer of swap)
    pc,         \* position of the running call: idle, attic, fill, retrieve, retrieve_loop,
                \* resize (the loop of resize that does not end), done
    call,       \* the running call: its name, arguments and the contents before it
    attic,      \* the attic object of a positional insert: [built, begin_, end_, save_index]
    res,        \* outcome of the call: [sig, ret, at]: the exception that left it (none,
                \* bad_alloc, element), the index or count returned, where it was thrown
    appended,   \* values appended since the container was last empty-constructed, or <<Raw>>
    iter        \* an iterator of the container: [pos_, first_, last_] as indices from data(),
                \* checked (the build defines CHECKED_ITERATORS), made (it exists)

vars == <<N, trivial, constructed, storage_, other, pc, call, attic, res, appended, iter>>

\* ---------------------------------------------------------------------------
\* storage<T, N>
\* ---------------------------------------------------------------------------

Slots == 0..(N - 1)

\* storage(): size_{0}, data_ uninitialized
EmptyStorage ==
    [data_ |-> [i \in Slots |-> Raw], size_ |-> 0, dd |-> FALSE, ow |-> FALSE, oob |-> FALSE]

\* storage::size() const; storage<T, 0>::size() returns 0
size(st) == IF N = 0 THEN 0 ELSE st.size_

\* storage::data(): the address of data_; nullptr in storage<T, 0>
data(st) == IF N = 0 THEN "nullptr" ELSE "data_"

\* size(n) that stores n in storage<T, 0> too
set_size_stores(st, n) == [st EXCEPT !.size_ = n]

\* storage::size(n); a no-op in storage<T, 0>
set_size(st, n) == IF N = 0 THEN st ELSE [st EXCEPT !.size_ = n]

\* storage::construct_at(i, args...): placement-new at data() + i
construct_at(st, i, x) ==
    IF N = 0 THEN st
    ELSE IF i \notin Slots THEN [st EXCEPT !.oob = TRUE]
    ELSE [st EXCEPT !.data_[i] = x,
                    !.ow = @ \/ (~trivial /\ st.data_[i] # Raw)]

\* storage::destroy_at(i): empty for a trivially destructible T and in storage<T, 0>
destroy_at(st, i) ==
    IF N = 0 \/ trivial THEN st
    ELSE IF i \notin Slots THEN [st EXCEPT !.oob = TRUE]
    ELSE [st EXCEPT !.data_[i] = Raw,
                    !.dd = @ \/ (st.data_[i] = Raw)]

\* storage::destroy(first, last): std::ranges::destroy over [first, last)
destroy(st, first, last) ==
    IF N = 0 \/ trivial THEN st
    ELSE [st EXCEPT !.data_ = [i \in Slots |-> IF first <= i /\ i < last THEN Raw ELSE st.data_[i]],
                    !.dd = @ \/ (\E i \in Slots : first <= i /\ i < last /\ st.data_[i] = Raw),
                    !.oob = @ \/ (first < last /\ last > N)]

\* storage::clear(): destroy(0, size_); size_ = 0
clear(st) == IF N = 0 THEN st ELSE [destroy(st, 0, st.size_) EXCEPT !.size_ = 0]

\* the state std::move leaves its source in: a trivial T is copied
Moved(x) == IF trivial THEN x ELSE MovedFrom

\* the elements [0, size) as a sequence
Contents(st) == [i \in 1..size(st) |-> st.data_[i - 1]]

\* the slots that hold an object (for a non-trivial T)
Live(st) == {i \in Slots : st.data_[i] # Raw}

\* ---------------------------------------------------------------------------
\* inplace_vector: helpers
\* ---------------------------------------------------------------------------

\* capacity_check with its comparison off by one
capacity_check_off_by_one(sz) == sz > N + 1

\* inplace_vector::capacity_check(size): true when bad_alloc is thrown
capacity_check(sz) == sz > N

\* unchecked_emplace_back without the increment of the size
unchecked_emplace_back_no_size(st, x) == construct_at(st, size(st), x)

\* inplace_vector::unchecked_emplace_back(args...)
unchecked_emplace_back(st, x) ==
    set_size(construct_at(st, size(st), x), size(st) + 1)

\* an element constructor can throw only when T has a user-provided one
CanThrow == ~trivial

\* the loop that stops one element short
RECURSIVE emplace_n_one_short(_, _, _)
emplace_n_one_short(st, x, k) ==
    IF k <= 1 THEN st ELSE emplace_n_one_short(unchecked_emplace_back(st, x), x, k - 1)

\* k times unchecked_emplace_back(x): the loops of resize and of the sized constructors
RECURSIVE emplace_n(_, _, _)
emplace_n(st, x, k) ==
    IF k = 0 THEN st ELSE emplace_n(unchecked_emplace_back(st, x), x, k - 1)

\* unchecked_emplace_back of each element of a sequence, in order
RECURSIVE emplace_all(_, _)
emplace_all(st, s) ==
    IF s = <<>> THEN st ELSE emplace_all(unchecked_emplace_back(st, Head(s)), Tail(s))

Repeat(x, k) == [i \in 1..k |-> x]

\* the sequences an iterator pair or a range can denote
Sources == UNION {[1..k -> Vals] : k \in 0..MaxIns}

\* the counts a caller passes: up to one more than fits
Counts == 0..(MaxN + 1)

\* the argument of the call is not a reference to an element of the container
NoRef == -1

NoCall ==
    [op |-> "none", pos |-> 0, count |-> 0, src |-> <<>>, ins |-> <<>>, old |-> <<>>,
     ref |-> NoRef]
NoAttic == [built |-> FALSE, begin_ |-> 0, end_ |-> 0, save_index |-> 0]
NoRes == [sig |-> "none", ret |-> 0, at |-> "none"]

NoLog == <<Raw>>

\* iterator(): pos_{nullptr}, first_{nullptr}, last_{nullptr}
NoIter == [pos_ |-> 0, first_ |-> 0, last_ |-> 0, checked |-> FALSE, made |-> FALSE]

PcValues == {"idle", "attic", "fill", "retrieve", "retrieve_loop", "resize", "done"}

TypeOK ==
    /\ N \in Capacities
    /\ trivial \in BOOLEAN
    /\ constructed \in BOOLEAN
    /\ pc \in PcValues
    /\ res.sig \in {"none", "bad_alloc", "element", "range_error", "out_of_range"}
    /\ DOMAIN storage_.data_ = Slots
    /\ DOMAIN other.data_ = Slots

Init ==
    /\ N \in Capacities
    /\ trivial \in BOOLEAN
    /\ constructed = TRUE
    /\ storage_ = EmptyStorage
    /\ other = EmptyStorage
    /\ pc = "idle"
    /\ call = NoCall
    /\ attic = NoAttic
    /\ res = NoRes
    /\ appended = <<>>
    /\ iter = NoIter

\* an object that nothing owns any more: beyond size() its destructor never runs
Leaked(st) == ~trivial /\ \E i \in Slots : i >= size(st) /\ st.data_[i] # Raw

\* a lifetime error has happened in st: the program's behaviour is followed no further
Defect(st) == st.oob \/ st.dd \/ st.ow \/ Leaked(st)

\* no call is running
Quiet == pc = "idle" /\ ~Defect(storage_) /\ ~Defect(other)
Idle == Quiet /\ constructed

Call(op, pos, count, src) ==
    [op |-> op, pos |-> pos, count |-> count, src |-> src, ins |-> src,
     old |-> Contents(storage_), ref |-> NoRef]

Result(sig, ret, at) == [sig |-> sig, ret |-> ret, at |-> at]

\* the call is over: `st` is the storage it leaves, `log` the appended values,
\* `exists` whether the container exists after it
Finish(c, st, r, log, exists) ==
    /\ pc' = "done"
    /\ call' = c
    /\ storage_' = st
    /\ res' = r
    /\ appended' = log
    /\ attic' = NoAttic
    /\ constructed' = exists
    /\ UNCHANGED <<iter, N, trivial, other>>

Done(c, st, r, log) == Finish(c, st, r, log, constructed)

Logged(x) == IF appended = NoLog THEN NoLog ELSE Append(appended, x)

\* ---------------------------------------------------------------------------
\* inplace_vector: append, pop_back, clear, resize
\* ---------------------------------------------------------------------------

\* emplace_back(args...), and push_back(value), which forwards to it
emplace_back ==
    /\ Idle
    /\ \E op \in {"emplace_back", "push_back"}, x \in Vals :
        LET c == Call(op, 0, 1, <<x>>)
        IN IF capacity_check(size(storage_) + 1)
           THEN Done(c, storage_, Result("bad_alloc", 0, "check"), appended)
           ELSE \/ /\ CanThrow
                   /\ Done(c, storage_, Result("element", 0, "fill"), appended)
                \/ Done(c, unchecked_emplace_back(storage_, x),
                        Result("none", size(storage_), "none"), Logged(x))

\* try_emplace_back(args...), and try_push_back(value): nullptr (ret = -1) when full
try_emplace_back ==
    /\ Idle
    /\ \E op \in {"try_emplace_back", "try_push_back"}, x \in Vals :
        LET c == Call(op, 0, 1, <<x>>)
        IN IF size(storage_) >= N
           THEN Done(c, storage_, Result("none", -1, "none"), appended)
           ELSE \/ /\ CanThrow
                   /\ Done(c, storage_, Result("element", 0, "fill"), appended)
                \/ Done(c, unchecked_emplace_back(storage_, x),
                        Result("none", size(storage_), "none"), Logged(x))

\* unchecked_emplace_back / unchecked_push_back, called as documented: size() < capacity()
unchecked_push_back ==
    /\ Idle
    /\ size(storage_) < N
    /\ \E x \in Vals :
        LET c == Call("unchecked_emplace_back", 0, 1, <<x>>)
        IN \/ /\ CanThrow
              /\ Done(c, storage_, Result("element", 0, "fill"), appended)
           \/ Done(c, unchecked_emplace_back(storage_, x),
                   Result("none", size(storage_), "none"), Logged(x))

\* pop_back(), called on a non-empty container
pop_back ==
    /\ Idle
    /\ size(storage_) > 0
    /\ Done(Call("pop_back", 0, 0, <<>>),
            set_size(destroy_at(storage_, size(storage_) - 1), size(storage_) - 1),
            Result("none", 0, "none"), NoLog)

\* inplace_vector::clear()
clear_all ==
    /\ Idle
    /\ Done(Call("clear", 0, 0, <<>>), clear(storage_), Result("none", 0, "none"), <<>>)

\* a shrinking resize that sets the size and destroys nothing
resize_shrink_no_destroy(st, count) ==
    IF size(st) > count THEN set_size(st, count) ELSE st

\* the first statement of resize: destroy the tail when shrinking
resize_shrink(st, count) ==
    IF size(st) > count THEN set_size(destroy(st, count, size(st)), count) ELSE st

\* resize(count) (x = T{}) and resize(count, value)
resize ==
    /\ Idle
    /\ \E op \in {"resize", "resize_value"}, count \in Counts :
       \E x \in IF op = "resize" THEN {DefaultVal} ELSE Vals :
        LET st == resize_shrink(storage_, count)
            grow == IF count > size(st) THEN count - size(st) ELSE 0
            c == Call(op, 0, count, <<x>>)
        IN \/ \* storage<T, 0>: size() stays 0, so `while (size() < count)` does not end
              /\ N = 0 /\ grow > 0
              /\ pc' = "resize"
              /\ call' = c
              /\ UNCHANGED <<iter, N, trivial, constructed, storage_, other, attic, res, appended>>
           \/ \* the same loop has no effect and binds a reference to *nullptr: a build
              \* may also drop it, and the call returns
              /\ N = 0 /\ grow > 0
              /\ Done(c, st, Result("none", 0, "none"), NoLog)
           \/ \* the k-th element's constructor throws: the k - 1 before it stay
              /\ N > 0 /\ CanThrow
              /\ \E k \in 1..grow :
                     /\ size(st) + k <= N
                     /\ Done(c, emplace_n(st, x, k - 1), Result("element", 0, "fill"), NoLog)
           \/ /\ N > 0 /\ count <= N
              /\ Done(c, emplace_n(st, x, grow), Result("none", 0, "none"), NoLog)
           \/ \* no capacity check: the loop constructs past data_, where size_ lives
              /\ N > 0 /\ count > N
              /\ \E s \in 0..count :
                     Done(c, [emplace_n(st, x, grow) EXCEPT !.size_ = s],
                          Result("none", 0, "none"), NoLog)

\* the loop of resize in storage<T, 0> goes round once more
resize_loop ==
    /\ pc = "resize"
    /\ UNCHANGED vars

\* ---------------------------------------------------------------------------
\* positional insert: insert(pos, value), emplace(pos, args...), insert(pos, count, value),
\* insert(pos, first, last); insert(pos, initializer_list) and insert_range(pos, rg)
\* forward to insert(pos, first, last)
\* ---------------------------------------------------------------------------

InsertOps == {"insert", "emplace", "insert_count", "insert_iter", "insert_input"}

\* a sum of two size_type values: unsigned, modulo MaxSizeT + 1
size_type_add(a, b) == (a + b) % (MaxSizeT + 1)

\* the arguments of one call: one value, count copies of a value (count is a size_type:
\* any value up to the largest), or a source sequence
InsertArgs(op) ==
    IF op \in {"insert", "emplace"} THEN {<<x>> : x \in Vals}
    ELSE IF op = "insert_count"
    THEN {Repeat(x, k) : x \in Vals, k \in 0..MaxIns}
         \cup {Repeat(DefaultVal, k) : k \in (MaxIns + 1)..MaxSizeT}
    ELSE Sources

\* an attic that starts at the insert position
attic_init_at_save_index(save_index, attic_end) ==
    [built |-> FALSE, begin_ |-> save_index, end_ |-> save_index, save_index |-> save_index]

\* attic::attic, member initializers: begin_{attic_end}, end_{attic_end}
attic_init(save_index, attic_end) ==
    [built |-> FALSE, begin_ |-> attic_end, end_ |-> attic_end, save_index |-> save_index]

\* the call, up to the construction of the attic: the capacity check of the sized
\* overloads; the input-iterator overload puts the attic at capacity()
insert_begin ==
    /\ Idle
    /\ \E op \in InsertOps, P \in 0..size(storage_) : \E src \in InsertArgs(op) :
        LET c == Call(op, P, Len(src), src)
            new_size == size_type_add(size(storage_), Len(src))
        IN IF op # "insert_input" /\ capacity_check(new_size)
           THEN Done(c, storage_, Result("bad_alloc", 0, "check"), appended)
           ELSE IF op # "insert_input" /\ size(storage_) + Len(src) > N
           THEN \* the sum wrapped: the attic is put below size() and the fill loop
                \* constructs past data_, where size_ lives
                /\ N > 0
                /\ \E s \in 0..MaxSizeT :
                     Done(c, [storage_ EXCEPT !.oob = TRUE, !.size_ = s],
                          Result("none", P, "none"), NoLog)
           ELSE /\ pc' = "attic"
                /\ call' = c
                /\ attic' = attic_init(P, IF op = "insert_input" THEN N ELSE new_size)
                /\ appended' = NoLog
                /\ UNCHANGED <<iter, N, trivial, constructed, storage_, other, res>>

\* insert(pos, value) where value is a reference to element i of the container itself:
\* the reference is bound to slot i, and is read when the element is constructed
insert_alias ==
    /\ Idle
    /\ \E P \in 0..size(storage_), i \in 0..(size(storage_) - 1) :
        LET c == [Call("insert_ref", P, 1, <<storage_.data_[i]>>) EXCEPT !.ref = i]
            new_size == size_type_add(size(storage_), 1)
        IN IF capacity_check(new_size)
           THEN Done(c, storage_, Result("bad_alloc", 0, "check"), appended)
           ELSE /\ pc' = "attic"
                /\ call' = c
                /\ attic' = attic_init(P, new_size)
                /\ appended' = NoLog
                /\ UNCHANGED <<iter, N, trivial, constructed, storage_, other, res>>

\* an unwinding in which ~attic destroys nothing
Unwind_no_destroy(sig, at) == Done(call, storage_, Result(sig, 0, at), appended)

\* an exception leaves the call: ~attic runs when the attic was constructed
Unwind(sig, at) ==
    Done(call,
         IF attic.built THEN destroy(storage_, attic.begin_, attic.end_) ELSE storage_,
         Result(sig, 0, at), appended)

\* a relocation that reads its source after moving from it
relocate_use_after_move(st, from, to) ==
    destroy_at(construct_at(st, to, Moved(st.data_[from])), from)

\* one relocation of the attic constructor's loop
relocate(st, from, to) ==
    destroy_at(construct_at(st, to, st.data_[from]), from)

\* attic::attic, body
attic_ctor ==
    /\ pc = "attic"
    /\ IF attic.begin_ = size(storage_)
       THEN /\ attic' = [attic EXCEPT !.begin_ = attic.save_index, !.built = TRUE]
            /\ storage_' = set_size(storage_, attic.save_index)
            /\ pc' = "fill"
            /\ UNCHANGED <<iter, N, trivial, constructed, other, call, res, appended>>
       ELSE IF size(storage_) # attic.save_index
       THEN \/ /\ CanThrow
               /\ Unwind("element", "attic")
            \/ /\ LET last_index == size(storage_) - 1
                  IN storage_' = set_size(relocate(storage_, last_index, attic.begin_ - 1),
                                          last_index)
               /\ attic' = [attic EXCEPT !.begin_ = @ - 1]
               /\ UNCHANGED <<iter, N, trivial, constructed, other, pc, call, res, appended>>
       ELSE /\ attic' = [attic EXCEPT !.built = TRUE]
            /\ pc' = "fill"
            /\ UNCHANGED <<iter, N, trivial, constructed, storage_, other, call, res, appended>>

\* a position check that lets the position begin_ through
attic_capacity_check_off_by_one(pos) == pos > attic.begin_

\* attic::capacity_check(pos): true when bad_alloc is thrown
attic_capacity_check(pos) == pos >= attic.begin_

\* what a read through a reference to slot i gives: the object in the slot; any value
\* when the object was destroyed, as the reference dangles
deref(st, i) == IF st.data_[i] = Raw THEN Vals \cup {MovedFrom} ELSE {st.data_[i]}

\* the values the next element can be constructed from
Argument == IF call.ref = NoRef THEN {Head(call.src)} ELSE deref(storage_, call.ref)

\* one round of the caller's fill loop
fill ==
    /\ pc = "fill"
    /\ IF call.src = <<>>
       THEN /\ pc' = "retrieve"
            /\ UNCHANGED <<iter, N, trivial, constructed, storage_, other, call, attic, res, appended>>
       ELSE IF call.op = "insert_input" /\ attic_capacity_check(size(storage_))
       THEN Unwind("bad_alloc", "fill")
       ELSE \/ /\ CanThrow
               /\ Unwind("element", "fill")
            \/ /\ \E x \in Argument : storage_' = unchecked_emplace_back(storage_, x)
               /\ call' = [call EXCEPT !.src = Tail(@)]
               /\ UNCHANGED <<iter, N, trivial, constructed, other, pc, attic, res, appended>>

\* retrieve() that leaves the size as it is when the elements are in place
retrieve_in_place_keeps_size(st) == st

\* attic::retrieve(), the elements are where they belong: size(end_)
retrieve_in_place(st) == set_size(st, attic.end_)

\* attic::retrieve(), up to its loop; the call then returns remove_const(pos)
retrieve ==
    /\ pc = "retrieve"
    /\ IF size(storage_) = attic.begin_
       THEN Done(call, retrieve_in_place(storage_), Result("none", call.pos, "none"), appended)
       ELSE /\ pc' = "retrieve_loop"
            /\ UNCHANGED <<iter, N, trivial, constructed, storage_, other, call, attic, res, appended>>

\* one round of the loop of attic::retrieve(); after it the call returns remove_const(pos)
retrieve_loop ==
    /\ pc = "retrieve_loop"
    /\ IF attic.begin_ # attic.end_
       THEN \/ /\ CanThrow
               /\ Unwind("element", "retrieve")
            \/ /\ storage_' = set_size(relocate(storage_, attic.begin_, size(storage_)),
                                       size(storage_) + 1)
               /\ attic' = [attic EXCEPT !.begin_ = @ + 1]
               /\ UNCHANGED <<iter, N, trivial, constructed, other, pc, call, res, appended>>
       ELSE Done(call, storage_, Result("none", call.pos, "none"), appended)

\* The two branches of insert(pos, first, last) as functions of the container, for a
\* run in which no constructor throws: the result is the storage left, the index returned
\* and the signal raised.

\* attic::attic, the loop: the tail [save_index, size) goes up to end at begin
RECURSIVE attic_ctor_loop(_, _, _)
attic_ctor_loop(st, begin, save_index) ==
    IF size(st) # save_index
    THEN LET last_index == size(st) - 1
         IN attic_ctor_loop(set_size(relocate(st, last_index, begin - 1), last_index),
                            begin - 1, save_index)
    ELSE [st |-> st, begin_ |-> begin]

\* attic::attic as a whole
attic_whole(st, save_index, attic_end) ==
    IF attic_end = size(st)
    THEN [st |-> set_size(st, save_index), begin_ |-> save_index, end_ |-> attic_end]
    ELSE LET a == attic_ctor_loop(st, attic_end, save_index)
         IN [st |-> a.st, begin_ |-> a.begin_, end_ |-> attic_end]

\* attic::retrieve(), the loop
RECURSIVE retrieve_whole_loop(_, _, _)
retrieve_whole_loop(st, begin, end) ==
    IF begin # end
    THEN retrieve_whole_loop(set_size(relocate(st, begin, size(st)), size(st) + 1),
                             begin + 1, end)
    ELSE st

\* a retrieve() that leaves the parked elements in the attic
retrieve_whole_leaves_parked(a) == a.st

\* attic::retrieve() as a whole
retrieve_whole(a) ==
    IF size(a.st) = a.begin_ THEN set_size(a.st, a.end_)
    ELSE retrieve_whole_loop(a.st, a.begin_, a.end_)

\* the branch for random-access iterators: the attic ends at size() + count
insert_sized(st, P, src) ==
    LET new_size == size_type_add(size(st), Len(src))
    IN IF capacity_check(new_size) THEN [st |-> st, ret |-> 0, sig |-> "bad_alloc"]
       ELSE LET a == attic_whole(st, P, new_size)
            IN [st |-> retrieve_whole([a EXCEPT !.st = emplace_all(a.st, src)]),
                ret |-> P, sig |-> "none"]

\* the fill loop of the branch for input iterators: attic.capacity_check(size()) before
\* each unchecked_emplace_back; on bad_alloc ~attic destroys [begin_, end_)
RECURSIVE fill_checked(_, _, _)
fill_checked(a, P, src) ==
    IF src = <<>> THEN [st |-> retrieve_whole(a), ret |-> P, sig |-> "none"]
    ELSE IF size(a.st) >= a.begin_
    THEN [st |-> destroy(a.st, a.begin_, a.end_), ret |-> 0, sig |-> "bad_alloc"]
    ELSE fill_checked([a EXCEPT !.st = unchecked_emplace_back(a.st, Head(src))], P, Tail(src))

\* the branch for input iterators: the attic ends at capacity()
insert_at_capacity(st, P, src) == fill_checked(attic_whole(st, P, N), P, src)

\* ---------------------------------------------------------------------------
\* construction and destruction of the container
\* ---------------------------------------------------------------------------

\* storage::~storage(): clear(), or nothing for a trivially destructible T and storage<T, 0>
storage_dtor(st) == IF N = 0 \/ trivial THEN st ELSE clear(st)

\* storage::exception_guard, the catch block: destroy(0, size_), size_ is left as it is
exception_guard_catch(st) == destroy(st, 0, size(st))

\* a constructor of inplace_vector leaves by an exception thrown inside
\* storage_.exception_guard: the catch block runs, then the destructor of the member storage_
ctor_unwind(st) == storage_dtor(exception_guard_catch(st))

\* ~inplace_vector(), defaulted: the destructor of storage_
destructor ==
    /\ pc = "idle" /\ constructed
    /\ ~storage_.oob /\ ~storage_.dd /\ ~Defect(other)
    /\ Finish(Call("dtor", 0, 0, <<>>), storage_dtor(storage_), Result("none", 0, "none"),
              NoLog, FALSE)

\* inplace_vector(), defaulted
ctor_default ==
    /\ Quiet /\ ~constructed
    /\ Finish(Call("ctor", 0, 0, <<>>), EmptyStorage, Result("none", 0, "none"), <<>>, TRUE)

\* inplace_vector(count) (x = T{}) and inplace_vector(count, value)
ctor_count ==
    /\ Quiet /\ ~constructed
    /\ \E op \in {"ctor_count", "ctor_count_value"}, count \in Counts :
       \E x \in IF op = "ctor_count" THEN {DefaultVal} ELSE Vals :
        LET c == Call(op, 0, count, Repeat(x, count))
        IN IF capacity_check(count)
           THEN Finish(c, storage_dtor(EmptyStorage), Result("bad_alloc", 0, "check"),
                       NoLog, FALSE)
           ELSE \/ Finish(c, emplace_n(EmptyStorage, x, count), Result("none", 0, "none"),
                          NoLog, TRUE)
                \/ \* the k-th element's constructor throws
                   /\ CanThrow /\ N > 0
                   /\ \E k \in 1..count :
                        Finish(c, ctor_unwind(emplace_n(EmptyStorage, x, k - 1)),
                               Result("element", k, "fill"), NoLog, FALSE)

\* inplace_vector(first, last): assign(first, last) inside storage_.exception_guard, which
\* storage<T, 0> leaves empty (the function is not called).  On the new, empty container
\* assign() is its append loop: unchecked_emplace_back after capacity_check(count) for
\* random-access iterators, emplace_back for input iterators.
\* inplace_vector(from_range, rg) and inplace_vector(initializer_list) delegate to it.
ctor_iter ==
    /\ Quiet /\ ~constructed
    /\ \E op \in {"ctor_iter", "ctor_input"}, src \in Sources :
        LET c == Call(op, 0, Len(src), src)
            fits == IF Len(src) <= N THEN Len(src) ELSE N
        IN IF N = 0
           THEN Finish(c, EmptyStorage, Result("none", 0, "none"), NoLog, TRUE)
           ELSE \/ /\ op = "ctor_iter" /\ capacity_check(Len(src))
                   /\ Finish(c, ctor_unwind(EmptyStorage), Result("bad_alloc", 0, "check"),
                             NoLog, FALSE)
                \/ /\ op = "ctor_input" /\ capacity_check(Len(src))
                   /\ Finish(c, ctor_unwind(emplace_all(EmptyStorage, SubSeq(src, 1, N))),
                             Result("bad_alloc", N + 1, "fill"), NoLog, FALSE)
                \/ /\ ~capacity_check(Len(src))
                   /\ Finish(c, emplace_all(EmptyStorage, src), Result("none", 0, "none"),
                             NoLog, TRUE)
                \/ \* the k-th element's constructor throws
                   /\ CanThrow
                   /\ op = "ctor_iter" => ~capacity_check(Len(src))
                   /\ \E k \in 1..fits :
                        Finish(c, ctor_unwind(emplace_all(EmptyStorage, SubSeq(src, 1, k - 1))),
                               Result("element", k, "fill"), NoLog, FALSE)

\* ---------------------------------------------------------------------------
\* copy and move of the whole storage: `other` is the source
\* ---------------------------------------------------------------------------

\* push_back on the second container (the same code, on the object `other`)
other_push_back ==
    /\ Quiet
    /\ ~capacity_check(size(other) + 1)
    /\ \E x \in Vals : other' = unchecked_emplace_back(other, x)
    /\ UNCHANGED <<iter, N, trivial, constructed, storage_, pc, call, attic, res, appended>>

\* a copy of the bytes of data_ that leaves size_ behind
bytewise_data_only(st, src) == [st EXCEPT !.data_ = src.data_]

\* the defaulted copy/move of storage for a trivial T, and of storage<T, 0>: the bytes
\* of data_ and size_
bytewise(st, src) == [st EXCEPT !.data_ = src.data_, !.size_ = src.size_]

\* a shrink that lowers the size without destroying the excess tail
assign_shrink_no_destroy(st, n) == IF size(st) > n THEN set_size(st, n) ELSE st

\* the first statement of both assignment operators: destroy the excess tail
assign_shrink(st, n) ==
    IF size(st) > n THEN set_size(destroy(st, n, size(st)), n) ELSE st

\* the two loops of storage::operator=, for the elements [i, j) of the source: assign
\* over the live prefix, construct_at beyond it
RECURSIVE assign_elems(_, _, _, _)
assign_elems(st, src, i, j) ==
    IF i >= j THEN st
    ELSE assign_elems(IF i < size(st)
                      THEN [st EXCEPT !.data_[i] = src.data_[i]]
                      ELSE set_size(construct_at(st, i, src.data_[i]), i + 1),
                      src, i + 1, j)

\* the source of a move after its elements [0, j) were moved from
moved_from(src, j) ==
    [src EXCEPT !.data_ = [i \in Slots |-> IF i < j THEN Moved(src.data_[i]) ELSE src.data_[i]]]

\* the two calls end together: storage_ and other both change
FinishBoth(c, st, o, r, exists) ==
    /\ pc' = "done"
    /\ call' = c
    /\ storage_' = st
    /\ other' = o
    /\ res' = r
    /\ appended' = NoLog
    /\ attic' = NoAttic
    /\ constructed' = exists
    /\ UNCHANGED <<iter, N, trivial>>

\* storage::operator=(const storage&), through the defaulted inplace_vector::operator=
copy_assign ==
    /\ Idle
    /\ LET c == Call("copy_assign", 0, size(other), Contents(other))
           st == assign_shrink(storage_, size(other))
       IN IF N = 0 \/ trivial
          THEN FinishBoth(c, bytewise(storage_, other), other, Result("none", 0, "none"), TRUE)
          ELSE \/ FinishBoth(c, assign_elems(st, other, 0, size(other)), other,
                             Result("none", 0, "none"), TRUE)
               \/ \* the copy of element k throws
                  \E k \in 1..size(other) :
                     FinishBoth(c, assign_elems(st, other, 0, k - 1), other,
                                Result("element", k, "fill"), TRUE)

\* storage::operator=(storage&&), through the defaulted inplace_vector::operator=
move_assign ==
    /\ Idle
    /\ LET c == Call("move_assign", 0, size(other), Contents(other))
           st == assign_shrink(storage_, size(other))
       IN IF N = 0 \/ trivial
          THEN FinishBoth(c, bytewise(storage_, other), other, Result("none", 0, "none"), TRUE)
          ELSE \/ FinishBoth(c, assign_elems(st, other, 0, size(other)),
                             set_size(moved_from(other, size(other)), 0),
                             Result("none", 0, "none"), TRUE)
               \/ \* the move of element k throws
                  \E k \in 1..size(other) :
                     FinishBoth(c, assign_elems(st, other, 0, k - 1), moved_from(other, k - 1),
                                Result("element", k, "fill"), TRUE)

\* storage(const storage&), through the defaulted inplace_vector(const inplace_vector&):
\* when the copy of element k throws, exception_guard destroys [0, size_) and the
\* storage under construction has no destructor to run
copy_ctor ==
    /\ Quiet /\ ~constructed
    /\ LET c == Call("copy_ctor", 0, size(other), Contents(other))
       IN IF N = 0 \/ trivial
          THEN FinishBoth(c, bytewise(EmptyStorage, other), other,
                          Result("none", 0, "none"), TRUE)
          ELSE \/ FinishBoth(c, assign_elems(EmptyStorage, other, 0, size(other)), other,
                             Result("none", 0, "none"), TRUE)
               \/ \E k \in 1..size(other) :
                     FinishBoth(c, exception_guard_catch(
                                       assign_elems(EmptyStorage, other, 0, k - 1)),
                                other, Result("element", k, "fill"), FALSE)

\* storage(storage&&), through the defaulted inplace_vector(inplace_vector&&): the size
\* of the source is left as it is
move_ctor ==
    /\ Quiet /\ ~constructed
    /\ LET c == Call("move_ctor", 0, size(other), Contents(other))
       IN IF N = 0 \/ trivial
          THEN FinishBoth(c, bytewise(EmptyStorage, other), other,
                          Result("none", 0, "none"), TRUE)
          ELSE \/ FinishBoth(c, assign_elems(EmptyStorage, other, 0, size(other)),
                             moved_from(other, size(other)), Result("none", 0, "none"), TRUE)
               \/ \E k \in 1..size(other) :
                     FinishBoth(c, exception_guard_catch(
                                       assign_elems(EmptyStorage, other, 0, k - 1)),
                                moved_from(other, k - 1), Result("element", k, "fill"), FALSE)

\* ---------------------------------------------------------------------------
\* erase(pos), erase(first, last), std::erase, std::erase_if
\* ---------------------------------------------------------------------------

\* a move assignment that leaves the target as it was
move_element_lost(st, dst, src, keep) == [st EXCEPT !.data_[src] = Moved(st.data_[src])]

\* `*dst = std::move(*src)` on two elements of st.  When dst and src are the same element
\* the value a non-trivial T is left with is T's choice: `keep` says whether it survives.
move_element(st, dst, src, keep) ==
    IF dst = src
    THEN IF keep THEN st ELSE [st EXCEPT !.data_[dst] = Moved(st.data_[src])]
    ELSE [st EXCEPT !.data_[dst] = st.data_[src], !.data_[src] = Moved(st.data_[src])]

\* the loop of erase: `while (src != end()) *dst++ = std::move(*src++)`, up to src = stop
RECURSIVE erase_shift(_, _, _, _, _)
erase_shift(st, dst, src, stop, keep) ==
    IF src >= stop THEN st
    ELSE erase_shift(move_element(st, dst, src, keep), dst + 1, src + 1, stop, keep)

\* erase(first, last): shift the tail down, destroy what is left over, set the size
erase_range(st, first, last, keep) ==
    LET new_size == first + (size(st) - last)
    IN set_size(destroy(erase_shift(st, first, last, size(st), keep), new_size, size(st)),
                new_size)

\* erase(pos) = erase(pos, pos + 1), and erase(first, last)
erase ==
    /\ Idle
    /\ \E op \in {"erase", "erase_range"}, first \in 0..size(storage_) :
       \E last \in first..size(storage_), keep \in BOOLEAN :
        LET c == Call(op, first, last - first, <<>>)
        IN /\ op = "erase" => last = first + 1
           /\ (keep = FALSE) => (~trivial /\ first = last /\ last < size(storage_))
           /\ \/ Done(c, erase_range(storage_, first, last, keep),
                      Result("none", first, "none"), NoLog)
              \/ \* the move assignment of the k-th element of the tail throws
                 /\ CanThrow
                 /\ \E k \in 1..(size(storage_) - last) :
                        Done(c, erase_shift(storage_, first, last, last + k - 1, keep),
                             Result("element", k, "erase"), NoLog)

\* a predicate on T, as the ascending sequence of the values it accepts
RECURSIVE Ascending(_)
Ascending(S) ==
    IF S = {} THEN <<>>
    ELSE LET least == CHOOSE x \in S : \A y \in S : x <= y
         IN <<least>> \o Ascending(S \ {least})

Accepts(pred, x) == \E i \in 1..Len(pred) : pred[i] = x

\* std::find_if over [i, size): the index of the first accepted element, or size
RECURSIVE find_if(_, _, _)
find_if(st, i, pred) ==
    IF i >= size(st) \/ Accepts(pred, st.data_[i]) THEN i ELSE find_if(st, i + 1, pred)

\* the loop of std::remove_if that also keeps the accepted elements
RECURSIVE remove_loop_keeps_all(_, _, _, _)
remove_loop_keeps_all(st, result, i, pred) ==
    IF i >= size(st) THEN [st |-> st, result |-> result]
    ELSE remove_loop_keeps_all(move_element(st, result, i, TRUE), result + 1, i + 1, pred)

\* the loop of std::remove_if: `if (!pred(*first)) *result++ = std::move(*first)`
RECURSIVE remove_loop(_, _, _, _)
remove_loop(st, result, i, pred) ==
    IF i >= size(st) THEN [st |-> st, result |-> result]
    ELSE IF Accepts(pred, st.data_[i])
    THEN remove_loop(st, result, i + 1, pred)
    ELSE remove_loop(move_element(st, result, i, TRUE), result + 1, i + 1, pred)

\* std::remove / std::remove_if over [begin(), end()): the storage and the new logical end
remove_if(st, pred) ==
    LET first == find_if(st, 0, pred)
    IN IF first >= size(st) THEN [st |-> st, result |-> first]
       ELSE remove_loop(st, first, first + 1, pred)

\* std::erase(c, value) and std::erase_if(c, predicate): remove, then c.erase(iter, c.end())
std_erase ==
    /\ Idle
    /\ \E op \in {"std_erase", "std_erase_if"}, accepted \in SUBSET Vals :
        LET pred == Ascending(accepted)
            r == remove_if(storage_, pred)
            c == Call(op, 0, 0, pred)
        IN /\ op = "std_erase" => Cardinality(accepted) = 1
           /\ Done(c, erase_range(r.st, r.result, size(storage_), TRUE),
                   Result("none", size(storage_) - r.result, "none"), NoLog)

\* ---------------------------------------------------------------------------
\* swap
\* ---------------------------------------------------------------------------

\* an exchange that assigns in one direction only
swap_elems_one_way(a, b, n) ==
    [a |-> [a EXCEPT !.data_ = [i \in Slots |-> IF i < n THEN b.data_[i] ELSE a.data_[i]]],
     b |-> b]

\* the first loop of swap: std::swap((*this)[i], other[i]) for i < n
swap_elems(a, b, n) ==
    [a |-> [a EXCEPT !.data_ = [i \in Slots |-> IF i < n THEN b.data_[i] ELSE a.data_[i]]],
     b |-> [b EXCEPT !.data_ = [i \in Slots |-> IF i < n THEN a.data_[i] ELSE b.data_[i]]]]

\* the elements [from, to) of src after they were moved from
moved_range(src, from, to) ==
    [src EXCEPT !.data_ = [i \in Slots |-> IF from <= i /\ i < to
                                           THEN Moved(src.data_[i]) ELSE src.data_[i]]]

\* the elements [from, to) of st as a sequence
Range(st, from, to) == [i \in 1..(to - from) |-> st.data_[from + i - 1]]

\* the branch of swap for a longer source: dst.append_range(src[i, end) | as_rvalue), then
\* src.erase(src.begin() + i, src.end())
swap_tail(dst, src, i) ==
    [dst |-> emplace_all(dst, Range(src, i, size(src))),
     src |-> erase_range(moved_range(src, i, size(src)), i, size(src), TRUE)]

\* inplace_vector::swap(other)
swap_storages(a, b) ==
    LET swap_count == IF size(a) < size(b) THEN size(a) ELSE size(b)
        e == swap_elems(a, b, swap_count)
    IN IF swap_count < size(e.b)
       THEN LET t == swap_tail(e.a, e.b, swap_count) IN [a |-> t.dst, b |-> t.src]
       ELSE IF swap_count < size(e.a)
       THEN LET t == swap_tail(e.b, e.a, swap_count) IN [a |-> t.src, b |-> t.dst]
       ELSE e

\* swap(other), and std::swap(lhs, rhs), which forwards to it
swap ==
    /\ Idle
    /\ LET c == Call("swap", 0, size(other), Contents(other))
           w == swap_storages(storage_, other)
           n == IF size(storage_) < size(other) THEN size(storage_) ELSE size(other)
           e == swap_elems(storage_, other, n)
       IN \/ FinishBoth(c, w.a, w.b, Result("none", 0, "none"), TRUE)
          \/ \* the move of the k-th element of the longer container's tail throws
             /\ CanThrow
             /\ \/ \E k \in 1..(size(other) - n) :
                      FinishBoth(c, emplace_all(e.a, Range(e.b, n, n + k - 1)),
                                 moved_range(e.b, n, n + k - 1),
                                 Result("element", k, "fill"), TRUE)
                \/ \E k \in 1..(size(storage_) - n) :
                      FinishBoth(c, moved_range(e.a, n, n + k - 1),
                                 emplace_all(e.b, Range(e.a, n, n + k - 1)),
                                 Result("element", k, "fill"), TRUE)

\* ---------------------------------------------------------------------------
\* append_range, try_append_range
\* ---------------------------------------------------------------------------

\* the sized ranges a caller passes: the short ones with any elements, and ranges whose
\* size goes up to the largest size_type value (a view such as iota)
Ranges == Sources \cup {Repeat(DefaultVal, k) : k \in (MaxIns + 1)..MaxSizeT}

\* append_range(rg): capacity_check(size() + std::ranges::size(rg)), then the loop of
\* unchecked_emplace_back
append_range ==
    /\ Idle
    /\ \E src \in Ranges :
        LET c == Call("append_range", 0, Len(src), src)
        IN IF capacity_check(size_type_add(size(storage_), Len(src)))
           THEN Done(c, storage_, Result("bad_alloc", 0, "check"), NoLog)
           ELSE \/ \* the constructor of the k-th element throws
                   /\ CanThrow
                   /\ \E k \in 1..Len(src) :
                        /\ size(storage_) + k <= N
                        /\ Done(c, emplace_all(storage_, SubSeq(src, 1, k - 1)),
                                Result("element", k, "fill"), NoLog)
                \/ /\ size(storage_) + Len(src) <= N
                   /\ Done(c, emplace_all(storage_, src), Result("none", 0, "none"), NoLog)
                \/ \* the sum wrapped: the loop constructs past data_, where size_ lives
                   /\ N > 0 /\ size(storage_) + Len(src) > N
                   /\ \E s \in 0..MaxSizeT :
                        Done(c, [emplace_all(storage_, src) EXCEPT !.size_ = s],
                             Result("none", 0, "none"), NoLog)

\* the number of elements try_append_range takes, without the clamp to the free capacity
try_count_unclamped(len, available) == len

\* try_append_range: count = std::min(std::ranges::size(rg), available)
try_count(len, available) == IF len < available THEN len ELSE available

\* try_append_range(rg): returns the position in rg of the first element not consumed
try_append_range ==
    /\ Idle
    /\ \E src \in Ranges :
        LET c == Call("try_append_range", 0, Len(src), src)
            available == N - size(storage_)
            count == try_count(Len(src), available)
        IN \/ Done(c, emplace_all(storage_, SubSeq(src, 1, count)),
                   Result("none", count, "none"), NoLog)
           \/ \* the constructor of the k-th element throws
              /\ CanThrow
              /\ \E k \in 1..count :
                    Done(c, emplace_all(storage_, SubSeq(src, 1, k - 1)),
                         Result("element", k, "fill"), NoLog)

\* ---------------------------------------------------------------------------
\* assign(count, value), assign(first, last); assign(initializer_list) and
\* assign_range(rg) forward to assign(first, last)
\* ---------------------------------------------------------------------------

\* an assign that appends the new elements and leaves the old ones as they are
RECURSIVE assign_seq_appends_only(_, _, _, _)
assign_seq_appends_only(st, s, i, j) ==
    IF i >= j THEN st
    ELSE assign_seq_appends_only(IF i < size(st) THEN st
                                 ELSE unchecked_emplace_back(st, s[i + 1]),
                                 s, i + 1, j)

\* the elements [i, j) of the sequence s go into st: `*dest = *first` over the elements
\* st has, unchecked_emplace_back beyond them
RECURSIVE assign_seq(_, _, _, _)
assign_seq(st, s, i, j) ==
    IF i >= j THEN st
    ELSE assign_seq(IF i < size(st)
                    THEN [st EXCEPT !.data_[i] = s[i + 1]]
                    ELSE unchecked_emplace_back(st, s[i + 1]),
                    s, i + 1, j)

\* assign(count, value) and assign(first, last) with random-access iterators: the
\* capacity check, the shared prefix, the new elements, then resize shrinks a longer rest
assign_sized ==
    /\ Idle
    /\ \E op \in {"assign_count", "assign_iter"} :
       \E src \in IF op = "assign_count" THEN {Repeat(x, k) : x \in Vals, k \in Counts}
                  ELSE Sources :
        LET c == Call(op, 0, Len(src), src)
        IN IF capacity_check(Len(src))
           THEN Done(c, storage_, Result("bad_alloc", 0, "check"), NoLog)
           ELSE \/ Done(c, resize_shrink(assign_seq(storage_, src, 0, Len(src)), Len(src)),
                        Result("none", 0, "none"), NoLog)
                \/ \* the assignment or the construction of the k-th element throws
                   /\ CanThrow
                   /\ \E k \in 1..Len(src) :
                        Done(c, assign_seq(storage_, src, 0, k - 1),
                             Result("element", k, "fill"), NoLog)

\* assign(first, last) with input iterators: clear(), then emplace_back of each element
assign_input ==
    /\ Idle
    /\ \E src \in Sources :
        LET c == Call("assign_input", 0, Len(src), src)
            fits == IF Len(src) <= N THEN Len(src) ELSE N
        IN \/ /\ ~capacity_check(Len(src))
              /\ Done(c, emplace_all(clear(storage_), src), Result("none", 0, "none"), NoLog)
           \/ /\ capacity_check(Len(src))
              /\ Done(c, emplace_all(clear(storage_), SubSeq(src, 1, N)),
                      Result("bad_alloc", N + 1, "fill"), NoLog)
           \/ \* the construction of the k-th element throws
              /\ CanThrow
              /\ \E k \in 1..fits :
                    Done(c, emplace_all(clear(storage_), SubSeq(src, 1, k - 1)),
                         Result("element", k, "fill"), NoLog)

\* ---------------------------------------------------------------------------
\* at(pos); iterator
\* ---------------------------------------------------------------------------

\* range_check with its comparison off by one
range_check_off_by_one(pos) == pos > size(storage_)

\* inplace_vector::range_check(pos): true when out_of_range is thrown
range_check(pos) == pos >= size(storage_)

\* the positions a caller asks for: up to one more than any size
Positions == 0..(MaxN + 1)

\* at(pos): range_check(pos), then data()[pos]; ret is the index of the element referred to
at ==
    /\ Idle
    /\ \E pos \in Positions :
        LET c == Call("at", pos, 0, <<>>)
        IN IF range_check(pos)
           THEN Done(c, storage_, Result("out_of_range", 0, "check"), appended)
           ELSE Done(c, storage_, Result("none", pos, "none"), appended)

\* iterator(p, base, size): pos_{p}, and in the checked build first_{base}, last_{base + size}
iterator_ctor(p, base, sz, checked) ==
    [pos_ |-> p,
     first_ |-> IF checked THEN base ELSE 0,
     last_ |-> IF checked THEN base + sz ELSE 0,
     checked |-> checked, made |-> TRUE]

\* iterator::deref_check(pos): true when range_error is thrown; empty in the unchecked build
deref_check(it, pos) == it.checked /\ (pos < it.first_ \/ pos >= it.last_)

\* iterator::range_check(pos): true when range_error is thrown; empty in the unchecked build
iterator_range_check(it, pos) == it.checked /\ (pos < it.first_ \/ pos > it.last_)

\* the distances a caller moves or indexes an iterator by
Offsets == (0 - (MaxN + 1))..(MaxN + 1)

\* an operation on the iterator is over
IterDone(c, r, it) ==
    /\ pc' = "done"
    /\ call' = c
    /\ res' = r
    /\ iter' = it
    /\ UNCHANGED <<N, trivial, constructed, storage_, other, attic, appended>>

\* begin() and end(): iterator{data(), data(), size()} and iterator{data() + size(), ...}
iter_make ==
    /\ Idle
    /\ \E checked \in BOOLEAN, p \in {0, size(storage_)} :
          iter' = iterator_ctor(p, 0, size(storage_), checked)
    /\ iter' # iter
    /\ UNCHANGED <<N, trivial, constructed, storage_, other, pc, call, attic, res, appended>>

\* iterator::operator*: deref_check(pos_), then *pos_
iter_deref ==
    /\ Idle /\ iter.made
    /\ LET c == Call("iter_deref", iter.pos_, 0, <<>>)
       IN IF deref_check(iter, iter.pos_)
          THEN IterDone(c, Result("range_error", 0, "check"), iter)
          ELSE IterDone(c, Result("none", iter.pos_, "none"), iter)

\* iterator::operator->: range_check(pos_), then pos_
iter_arrow ==
    /\ Idle /\ iter.made
    /\ LET c == Call("iter_arrow", iter.pos_, 0, <<>>)
       IN IF iterator_range_check(iter, iter.pos_)
          THEN IterDone(c, Result("range_error", 0, "check"), iter)
          ELSE IterDone(c, Result("none", iter.pos_, "none"), iter)

\* iterator::operator[](n): pos = pos_ + n, range_check(pos), then *pos
iter_index ==
    /\ Idle /\ iter.made
    /\ \E n \in Offsets :
        LET pos == iter.pos_ + n
            c == Call("iter_index", pos, n, <<>>)
        IN /\ iter.checked \/ pos \in (0 - 1)..(N + 1)
           /\ IF iterator_range_check(iter, pos)
              THEN IterDone(c, Result("range_error", 0, "check"), iter)
              ELSE IterDone(c, Result("none", pos, "none"), iter)

\* iterator::operator+=(n): range_check(pos_ + n), then pos_ = pos; operator++ (n = 1),
\* operator-- (n = -1), operator-=, operator+ and operator- go through the same check
iter_advance ==
    /\ Idle /\ iter.made
    /\ \E n \in Offsets :
        LET pos == iter.pos_ + n
            c == Call("iter_advance", pos, n, <<>>)
        IN /\ iter.checked \/ pos \in (0 - 1)..(N + 1)
           /\ IF iterator_range_check(iter, pos)
              THEN IterDone(c, Result("range_error", 0, "check"), iter)
              ELSE IterDone(c, Result("none", pos, "none"), [iter EXCEPT !.pos_ = pos])

\* the call returns to its caller; the storage of a destroyed container is gone
Return ==
    /\ pc = "done"
    /\ pc' = "idle"
    /\ call' = NoCall
    /\ res' = NoRes
    /\ attic' = NoAttic
    /\ storage_' = IF constructed THEN storage_ ELSE EmptyStorage
    /\ UNCHANGED <<iter, N, trivial, constructed, other, appended>>

Next ==
    \/ emplace_back
    \/ try_emplace_back
    \/ unchecked_push_back
    \/ pop_back
    \/ clear_all
    \/ resize
    \/ resize_loop
    \/ insert_begin
    \/ insert_alias
    \/ attic_ctor
    \/ fill
    \/ retrieve
    \/ retrieve_loop
    \/ destructor
    \/ ctor_default
    \/ ctor_count
    \/ ctor_iter
    \/ erase
    \/ std_erase
    \/ append_range
    \/ try_append_range
    \/ assign_sized
    \/ assign_input
    \/ at
    \/ Return

Spec == Init /\ [][Next]_vars

\* two containers: copy and move construction and assignment between them
NextPair ==
    \/ emplace_back
    \/ pop_back
    \/ other_push_back
    \/ copy_assign
    \/ move_assign
    \/ copy_ctor
    \/ move_ctor
    \/ swap
    \/ destructor
    \/ ctor_default
    \/ Return

\* a call runs on the caller's thread: a step of it that can be taken is taken
SpecLive == Spec /\ WF_vars(Next)

SpecPair == Init /\ [][NextPair]_vars

\* a container and an iterator of it
NextIter ==
    \/ emplace_back
    \/ pop_back
    \/ at
    \/ iter_make
    \/ iter_deref
    \/ iter_arrow
    \/ iter_index
    \/ iter_advance
    \/ Return

SpecIter == Init /\ [][NextIter]_vars

\* ===========================================================================
\* The claims
\* ===========================================================================

IsDone(ops) == pc = "done" /\ call.op \in ops

AppendOps == {"emplace_back", "push_back"}
TryOps == {"try_emplace_back", "try_push_back"}
ResizeOps == {"resize", "resize_value"}
SizedCtorOps == {"ctor_count", "ctor_count_value"}
CtorOps == SizedCtorOps \cup {"ctor_iter", "ctor_input"}
SingleInsertOps == {"insert", "emplace"}
MultiInsertOps == {"insert_count", "insert_iter", "insert_input"}

\* old[0, P) ++ ins ++ old[P, size)
Inserted(old, P, ins) == SubSeq(old, 1, P) \o ins \o SubSeq(old, P + 1, Len(old))

\* slots [0, size) hold an object and no other slot does, and no destructor ran twice
WellFormed(st) ==
    /\ st.size_ <= N
    /\ ~st.oob
    /\ ~trivial => /\ Live(st) = 0..(size(st) - 1)
                   /\ ~st.dd /\ ~st.ow

\* the size the call asks for
Requested ==
    IF call.op \in ResizeOps \cup SizedCtorOps THEN call.count
    ELSE Len(call.old) + call.count

\* C1: between calls, slots [0, size) of every container hold an object and slots
\* [size, N) hold none (for a T whose lifetime is observable), the source of a move
\* included.
C1_StorageInvariant ==
    pc \in {"idle", "done"}
        => /\ constructed => (~trivial => Live(storage_) = 0..(size(storage_) - 1))
           /\ ~trivial => Live(other) = 0..(size(other) - 1)

\* C2: the size never exceeds N, and a checked call that asks for a size above N
\* (emplace_back, push_back, insert, emplace, resize, sized construction) ends with
\* bad_alloc (unless an element's constructor threw first).
C2_SizeNeverExceedsCapacity ==
    /\ storage_.size_ <= N
    /\ (IsDone(AppendOps \cup InsertOps \cup ResizeOps \cup SizedCtorOps)
            /\ Requested > N /\ res.sig # "element")
        => res.sig = "bad_alloc"

\* C3: an insert or emplace that would make the size exceed N ends with bad_alloc and
\* leaves the size and the elements as they were before the call.
C3_InsertOverflowUnchanged ==
    (IsDone(InsertOps) /\ Len(call.old) + call.count > N /\ res.sig # "element")
        => /\ res.sig = "bad_alloc"
           /\ Contents(storage_) = call.old

C5_RelocationFailureLeaksNothing ==
    /\ (IsDone(InsertOps) /\ res.sig = "element" /\ res.at \in {"attic", "retrieve"})
           => WellFormed(storage_)
    /\ IsDone({"dtor"}) => (~trivial => Live(storage_) = {} /\ ~storage_.dd)

\* C6: when an element constructor throws during the construction of a container, every
\* element constructed before it is destroyed exactly once, and the exception propagates.
C6_CtorFailureDestroysOnce ==
    (IsDone(CtorOps) /\ res.sig = "element")
        => /\ ~constructed
           /\ ~storage_.dd
           /\ ~trivial => Live(storage_) = {}

\* C7: insert(pos, value) / emplace(pos, args) at index P of a container with size < N
\* does not raise bad_alloc and, unless the element's constructor throws, leaves
\* old[0, P) ++ [value] ++ old[P, size), one element more, and returns index P.
C7_InsertOne ==
    (IsDone(SingleInsertOps) /\ Len(call.old) < N)
        => /\ res.sig # "bad_alloc"
           /\ res.sig = "none" =>
                /\ size(storage_) = Len(call.old) + 1
                /\ Contents(storage_) = Inserted(call.old, call.pos, call.ins)
                /\ Contents(storage_)[call.pos + 1] = call.ins[1]
                /\ res.ret = call.pos

C7_Witness ==
    /\ IsDone(SingleInsertOps) /\ res.sig = "none"
    /\ 0 < call.pos /\ call.pos < Len(call.old)
    /\ call.old[call.pos] # call.old[call.pos + 1]
    /\ call.ins[1] # call.old[call.pos + 1]

\* C8: inserting K elements (count and value, iterator pair, initializer list, range) at
\* index P with size + K <= N does not raise bad_alloc and, unless an element's constructor
\* throws, leaves old[0, P) ++ the K elements in source order ++ old[P, size), K elements
\* more, and returns index P.
C8_InsertMany ==
    (IsDone(MultiInsertOps) /\ Len(call.old) + call.count <= N)
        => /\ res.sig # "bad_alloc"
           /\ res.sig = "none" =>
                /\ size(storage_) = Len(call.old) + call.count
                /\ Contents(storage_) = Inserted(call.old, call.pos, call.ins)
                /\ res.ret = call.pos

C8_Witness ==
    /\ IsDone({"insert_input"}) /\ res.sig = "none"
    /\ call.count = 2 /\ call.ins[1] # call.ins[2]
    /\ call.pos < Len(call.old)

\* C9: on a full container emplace_back / push_back ends with bad_alloc, and
\* try_emplace_back / try_push_back returns null without an exception; the size and the
\* elements are unchanged.
C9_AppendWhenFull ==
    /\ (IsDone(AppendOps) /\ Len(call.old) = N)
           => res.sig = "bad_alloc" /\ Contents(storage_) = call.old
    /\ (IsDone(TryOps) /\ Len(call.old) = N)
           => res.sig = "none" /\ res.ret = -1 /\ Contents(storage_) = call.old

C9_Witness ==
    /\ IsDone({"emplace_back"}) /\ N = MaxN /\ Len(call.old) = N
    /\ res.sig = "bad_alloc"

\* C10: after k <= N appends (emplace_back, push_back, try_emplace_back) to an empty
\* container the size is k and element i is the i-th appended value.
C10_AppendOrder ==
    appended # NoLog
        => /\ size(storage_) = Len(appended)
           /\ \A i \in 1..Len(appended) : storage_.data_[i - 1] = appended[i]

C10_Witness ==
    /\ appended # NoLog /\ N = MaxN /\ Len(appended) = N
    /\ appended[1] # appended[N]
    /\ IsDone({"try_emplace_back"})

EraseOps == {"erase", "erase_range"}
StdEraseOps == {"std_erase", "std_erase_if"}

\* old without its elements [first, last)
Erased(old, first, last) == SubSeq(old, 1, first) \o SubSeq(old, last + 1, Len(old))

\* C11: after insert(pos, v) / emplace(pos, v) on a container with size < N, erase(pos)
\* gives back the container as it was before the insertion: size, order and values.
C11_InsertEraseRoundTrip ==
    (IsDone(SingleInsertOps) /\ Len(call.old) < N /\ res.sig = "none")
        => LET back == erase_range(storage_, res.ret, res.ret + 1, TRUE)
           IN /\ Contents(back) = call.old
              /\ WellFormed(back)

C11_Witness ==
    /\ IsDone(SingleInsertOps) /\ res.sig = "none" /\ ~trivial
    /\ call.pos < Len(call.old) /\ Len(call.old) >= 2
    /\ call.old[1] # call.old[2]
    /\ Contents(erase_range(storage_, res.ret, res.ret + 1, TRUE)) = call.old

\* C13: erase(first, last) with 0 <= first <= last <= size, and erase(pos) as
\* [pos, pos + 1), removes exactly the elements [first, last), keeps the others in order
\* with their values, makes the size last - first smaller and returns index first.
C13_EraseRange ==
    (IsDone(EraseOps) /\ res.sig = "none")
        => /\ Contents(storage_) = Erased(call.old, call.pos, call.pos + call.count)
           /\ size(storage_) = Len(call.old) - call.count
           /\ res.ret = call.pos
           /\ WellFormed(storage_)

\* C14: std::erase(c, value) and std::erase_if(c, pred) remove exactly the elements equal
\* to value / accepted by pred, keep the others in order, and return the number removed:
\* the size before minus the size after.
C14_EraseValue ==
    (IsDone(StdEraseOps) /\ res.sig = "none")
        => LET Survives(x) == ~Accepts(call.src, x)
           IN /\ Contents(storage_) = SelectSeq(call.old, Survives)
              /\ res.ret = Len(call.old) - size(storage_)
              /\ WellFormed(storage_)

C14_Witness ==
    /\ IsDone(StdEraseOps) /\ res.sig = "none" /\ ~trivial
    /\ Len(call.old) = 3 /\ res.ret = 1
    /\ Accepts(call.src, call.old[1])
    /\ call.old[2] # call.old[3]

\* C12: swap(a, b) leaves a with b's elements and b with a's, whatever their sizes, and a
\* second swap(a, b) gives both their original contents back.
C12_SwapExchanges ==
    (IsDone({"swap"}) /\ res.sig = "none")
        => LET again == swap_storages(storage_, other)
           IN /\ Contents(storage_) = call.src
              /\ Contents(other) = call.old
              /\ WellFormed(storage_) /\ WellFormed(other)
              /\ Contents(again.a) = call.old
              /\ Contents(again.b) = call.src
              /\ WellFormed(again.a) /\ WellFormed(again.b)

C12_Witness ==
    /\ IsDone({"swap"}) /\ res.sig = "none" /\ ~trivial
    /\ Len(call.old) >= 1 /\ Len(call.src) > Len(call.old)
    /\ call.old[1] # call.src[1]

\* C15: resize(count) and resize(count, value) with count <= N leave the size equal to
\* count: the first min(size, count) elements are unchanged, a shrunk tail is destroyed,
\* and each new element is T{} (resp. value).
C15_Resize ==
    (IsDone(ResizeOps) /\ call.count <= N /\ res.sig = "none")
        => LET kept == IF call.count < Len(call.old) THEN call.count ELSE Len(call.old)
           IN /\ size(storage_) = call.count
              /\ Contents(storage_)
                     = SubSeq(call.old, 1, kept) \o Repeat(call.src[1], call.count - kept)
              /\ call.op = "resize" => call.src[1] = DefaultVal
              /\ WellFormed(storage_)

C15_Witness ==
    /\ IsDone({"resize_value"}) /\ res.sig = "none" /\ ~trivial
    /\ Len(call.old) = 1 /\ call.count = 3 /\ call.old[1] # call.src[1]

C15_ShrinkWitness ==
    /\ IsDone({"resize"}) /\ res.sig = "none" /\ ~trivial
    /\ Len(call.old) = 3 /\ call.count = 1

\* C16: try_append_range(rg) on a container of size s appends the first min(|rg|, N - s)
\* elements of rg in order, never raises bad_alloc, leaves the size at min(s + |rg|, N)
\* and returns the position in rg of the first element it did not take.
C16_TryAppendRange ==
    IsDone({"try_append_range"})
        => LET s == Len(call.old)
               taken == IF call.count < N - s THEN call.count ELSE N - s
           IN /\ res.sig # "bad_alloc"
              /\ res.sig = "none" =>
                   /\ Contents(storage_) = call.old \o SubSeq(call.src, 1, taken)
                   /\ size(storage_) = (IF s + call.count < N THEN s + call.count ELSE N)
                   /\ res.ret = taken
                   /\ (res.ret = call.count) <=> (s + call.count <= N)
                   /\ WellFormed(storage_)

C16_Witness ==
    /\ IsDone({"try_append_range"}) /\ res.sig = "none" /\ ~trivial
    /\ Len(call.old) = 2 /\ N = 3 /\ call.count = 2 /\ res.ret = 1
    /\ call.src[1] # call.src[2]

\* C17: append_range(rg) with size + |rg| <= N appends all of rg in order; with
\* size + |rg| > N it ends with bad_alloc and the size and the elements are unchanged.
C17_AppendRange ==
    (IsDone({"append_range"}) /\ res.sig # "element")
        => IF Len(call.old) + call.count <= N
           THEN /\ res.sig = "none"
                /\ Contents(storage_) = call.old \o call.src
                /\ WellFormed(storage_)
           ELSE /\ res.sig = "bad_alloc"
                /\ Contents(storage_) = call.old
                /\ WellFormed(storage_)

\* C18 as claimed: after a = std::move(b), for trivial and non-trivial T, a holds b's
\* prior elements and the size of b is 0.
C18_MoveAssignEmptiesSource ==
    (IsDone({"move_assign"}) /\ res.sig = "none")
        => /\ Contents(storage_) = call.src
           /\ size(other) = 0

\* C18 as amended: after a = std::move(b), a holds b's prior elements; the size of b is 0
\* when T is not trivially move-assignable, and b keeps its size and elements when T is
\* trivially move-assignable (the assignment is then a copy of the bytes).
C18_MoveAssign ==
    (IsDone({"move_assign"}) /\ res.sig = "none")
        => /\ Contents(storage_) = call.src
           /\ WellFormed(storage_)
           /\ IF trivial THEN Contents(other) = call.src ELSE size(other) = 0

C18_Witness ==
    /\ IsDone({"move_assign"}) /\ res.sig = "none" /\ trivial
    /\ Len(call.src) >= 1 /\ Len(call.old) > Len(call.src)
    /\ call.old[1] # call.src[1]
    /\ size(other) = Len(call.src)

C19_CtorWitness ==
    /\ IsDone({"copy_ctor"}) /\ res.sig = "none" /\ ~trivial
    /\ Len(call.src) >= 2 /\ call.src[1] # call.src[2]

AssignOps == {"assign_count", "assign_iter", "assign_input"}

\* C20: assign replaces the whole contents whatever the size was: after assign(count,
\* value) with count <= N the container holds count copies of value, and after
\* assign(first, last) of at most N elements it holds that sequence in order.
C20_Assign ==
    (IsDone(AssignOps) /\ call.count <= N)
        => /\ res.sig # "bad_alloc"
           /\ res.sig = "none" =>
                /\ size(storage_) = call.count
                /\ Contents(storage_) = call.src
                /\ WellFormed(storage_)

C20_Witness ==
    /\ IsDone({"assign_iter"}) /\ res.sig = "none" /\ ~trivial
    /\ Len(call.old) = 3 /\ call.count = 2
    /\ call.src[1] # call.src[2]
    /\ call.old[1] # call.src[1]

C20_GrowWitness ==
    /\ IsDone({"assign_count"}) /\ res.sig = "none" /\ ~trivial
    /\ Len(call.old) = 1 /\ call.count = 3
    /\ call.old[1] # call.src[1]

\* C21: in the checked build operator* and operator[] raise range_error unless the position
\* p they refer to satisfies first_ <= p < last_; operator-> accepts p = last_ as well.
C21_CheckedDereference ==
    /\ (IsDone({"iter_deref", "iter_index"}) /\ iter.checked)
           => (res.sig = "range_error"
                   <=> ~(iter.first_ <= call.pos /\ call.pos < iter.last_))
    /\ (IsDone({"iter_arrow"}) /\ iter.checked)
           => (res.sig = "range_error"
                   <=> ~(iter.first_ <= call.pos /\ call.pos <= iter.last_))

\* C24: at(pos) raises out_of_range exactly when pos >= size() and leaves the container
\* unchanged; for pos < size() it returns the element at index pos, the one begin() + pos
\* refers to.
C24_At ==
    IsDone({"at"})
        => /\ res.sig = "out_of_range" <=> call.pos >= Len(call.old)
           /\ res.sig \in {"none", "out_of_range"}
           /\ Contents(storage_) = call.old
           /\ res.sig = "none" =>
                /\ res.ret = call.pos
                /\ storage_.data_[res.ret] = call.old[call.pos + 1]
                /\ ~iterator_range_check(iterator_ctor(0, 0, size(storage_), TRUE), call.pos)
                /\ ~deref_check(iterator_ctor(0, 0, size(storage_), TRUE), res.ret)

C24_Witness ==
    /\ IsDone({"at"}) /\ res.sig = "out_of_range"
    /\ Len(call.old) = 2 /\ call.pos = 2

\* C22: with N = 0 the size is 0 and data() is null in every reachable state, size(n),
\* construct_at, destroy_at, destroy and clear change nothing, every checked append or
\* insert of an element ends with bad_alloc, and try_emplace_back returns null.
C22_ZeroCapacity ==
    N = 0
        => /\ size(storage_) = 0
           /\ data(storage_) = "nullptr"
           /\ storage_ = EmptyStorage
           /\ \A i \in 0..1, x \in Vals :
                /\ set_size(storage_, i) = storage_
                /\ construct_at(storage_, i, x) = storage_
                /\ destroy_at(storage_, i) = storage_
                /\ destroy(storage_, 0, i) = storage_
           /\ clear(storage_) = storage_
           /\ (IsDone(AppendOps \cup InsertOps \cup {"append_range"}) /\ call.count >= 1)
                  => res.sig = "bad_alloc"
           /\ IsDone(TryOps) => res.sig = "none" /\ res.ret = -1

C22_Witness ==
    /\ N = 0 /\ ~trivial
    /\ IsDone({"insert_input"}) /\ call.count = 2 /\ res.sig = "bad_alloc"

\* C23: every call terminates: whenever an operation is running, it comes to its end
\* (by a return or by an exception) and the container is between calls again.
C23_EveryCallTerminates == (pc # "idle") ~> (pc = "idle")

\* C30: insert(pos, count, value) and append_range reject every request whose
\* mathematical new size, size + count, exceeds N, whatever size_type value count has:
\* such a call ends with bad_alloc.
C30_NoWraparound ==
    (IsDone({"insert_count", "append_range"}) /\ Len(call.old) + call.count > N)
        => res.sig = "bad_alloc"

\* a positional insert or emplace is between two of its steps
InsertRunning == pc \in {"attic", "fill", "retrieve", "retrieve_loop"}

\* the slots [from, to)
Zone(from, to) == {i \in Slots : from <= i /\ i < to}

\* size <= begin_ <= end_ <= N, and the slots that hold an object are those of [0, size)
\* and of the attic zone [begin_, end_)
OwnedByStorageOrAttic ==
    /\ size(storage_) <= attic.begin_ /\ attic.begin_ <= attic.end_ /\ attic.end_ <= N
    /\ ~storage_.oob /\ ~storage_.ow /\ ~storage_.dd
    /\ ~trivial => Live(storage_) = Zone(0, size(storage_)) \cup Zone(attic.begin_, attic.end_)

\* the part of C25 about the steps that raise nothing
C25_WhileRunning == InsertRunning => OwnedByStorageOrAttic

\* C25: at every intermediate step of a positional insert/emplace, and on every
\* exception path, size <= begin_ <= end_ <= N and the slots that hold an object are
\* exactly [0, size) and the attic zone [begin_, end_); once an exception has left the
\* call there is no attic, and the slots that hold an object are exactly [0, size).
C25_AtticOwnership ==
    /\ C25_WhileRunning
    /\ (IsDone(InsertOps) /\ res.sig \in {"element", "bad_alloc"})
          => /\ size(storage_) <= N
             /\ ~storage_.oob /\ ~storage_.ow /\ ~storage_.dd
             /\ ~trivial => Live(storage_) = Zone(0, size(storage_))

\* C26: in the insert of an input-iterator range, where the attic is put at capacity, a
\* fill step constructs its element at a slot below N and outside the attic zone
\* [begin_, end_), and leaves the parked elements as they are; when the next slot is not
\* below begin_ and an element is still to come, the step raises bad_alloc instead.
C26_FillStaysBelowAttic ==
    [][(pc = "fill" /\ call.op = "insert_input" /\ call.src # <<>>)
         => LET i == size(storage_)
            IN IF i >= attic.begin_
               THEN pc' = "done" /\ res'.sig = "bad_alloc"
               ELSE pc' = "fill"
                      => /\ i < N /\ i \notin Zone(attic.begin_, attic.end_)
                         /\ size(storage_') = i + 1
                         /\ storage_'.data_[i] = Head(call.src)
                         /\ ~storage_'.ow /\ ~storage_'.oob
                         /\ \A j \in Zone(attic.begin_, attic.end_) :
                                storage_'.data_[j] = storage_.data_[j]]_vars

\* the range was longer than the room below the parked elements: some of it was
\* constructed, then the position check raised bad_alloc
C26_Witness ==
    /\ IsDone({"insert_input"}) /\ res.sig = "bad_alloc" /\ res.at = "fill"
    /\ call.pos < Len(call.old) /\ Len(call.old) < N
    /\ call.src # <<>> /\ Len(call.src) < call.count

\* C27: for the same position and the same K elements with size + K <= N, the insert of
\* a random-access range and the insert of an input-only range leave the same size and
\* the same elements and return the same position: a finished run of either is compared
\* with the other branch applied to the same container.
C27_SamePathsSameResult ==
    (IsDone({"insert_iter", "insert_input"}) /\ res.sig = "none"
        /\ Len(call.old) + call.count <= N)
        => LET before == emplace_all(EmptyStorage, call.old)
               twin == IF call.op = "insert_iter"
                       THEN insert_at_capacity(before, call.pos, call.ins)
                       ELSE insert_sized(before, call.pos, call.ins)
           IN /\ twin.sig = "none"
              /\ size(storage_) = size(twin.st)
              /\ Contents(storage_) = Contents(twin.st)
              /\ res.ret = twin.ret

\* elements inserted before a tail, with room left: the input branch parks the tail at
\* capacity and brings it back, the sized branch parks it where it belongs
C27_Witness ==
    /\ IsDone({"insert_iter"}) /\ res.sig = "none"
    /\ call.count >= 1 /\ call.pos < Len(call.old)
    /\ Len(call.old) + call.count < N

\* an insert of no element is running or has ended
InsertsNothing ==
    /\ pc \in {"attic", "fill", "retrieve", "retrieve_loop", "done"}
    /\ call.op \in {"insert_count", "insert_iter", "insert_input"}
    /\ call.count = 0

\* every element is in the slot it had before the call (none was relocated or destroyed),
\* and the call, once over, raised nothing, left the size as it was and returned pos
Untouched ==
    /\ \A i \in 1..Len(call.old) : storage_.data_[i - 1] = call.old[i]
    /\ pc = "done" => /\ res.sig = "none"
                      /\ size(storage_) = Len(call.old)
                      /\ res.ret = call.pos

\* C28 as claimed: insert(pos, 0, value) and the insert of an empty range, random-access
\* or input-only, at any position of any container, the full one included, leave the
\* size and every element unchanged, destroy no element, raise no error and return pos.
C28_InsertNothing == InsertsNothing => Untouched

\* the empty input-only range before a tail that has room above it: the attic is put at
\* capacity, so the tail is relocated
RelocatesTail ==
    call.op = "insert_input" /\ call.pos < Len(call.old) /\ Len(call.old) < N

\* C28, amended: insert(pos, 0, value), the insert of an empty random-access range, and
\* the insert of an empty input-only range at the end or into a full container touch
\* nothing, raise nothing and return pos.  The insert of an empty input-only range at
\* pos < size < N relocates the tail to capacity and back: it raises nothing but what a
\* move constructor throws, and when none throws it leaves the size and the elements as
\* they were and returns pos.
C28_InsertNothingRelocates ==
    InsertsNothing
        => IF RelocatesTail
           THEN pc = "done"
                  => /\ res.sig \in {"none", "element"}
                     /\ res.sig = "none" => /\ Contents(storage_) = call.old
                                            /\ WellFormed(storage_)
                                            /\ res.ret = call.pos
           ELSE Untouched

\* nothing inserted before the tail of a full container
C28_Witness ==
    /\ IsDone({"insert_input"}) /\ call.count = 0 /\ ~trivial
    /\ N = MaxN /\ Len(call.old) = N /\ call.pos = 0
    /\ res.sig = "none"

\* nothing inserted before a tail that was relocated and brought back
C28_RelocatedWitness ==
    /\ IsDone({"insert_input"}) /\ call.count = 0 /\ ~trivial
    /\ RelocatesTail /\ res.sig = "none"

\* C29: insert(pos, value) where value refers to element i of the same container, i
\* before or after pos, inserts a copy of the value the element had before the call:
\* the result is old[0, P) ++ <<old[i]>> ++ old[P, size).
C29_InsertOwnElement ==
    (IsDone({"insert_ref"}) /\ res.sig = "none")
        => /\ Contents(storage_) = Inserted(call.old, call.pos, <<call.old[call.ref + 1]>>)
           /\ WellFormed(storage_)
           /\ res.ret = call.pos

\* the part of C29 that the code keeps: the element referred to is below pos, so the
\* attic does not relocate it
C29_ElementBelowPos ==
    (IsDone({"insert_ref"}) /\ res.sig = "none" /\ call.ref < call.pos)
        => /\ Contents(storage_) = Inserted(call.old, call.pos, <<call.old[call.ref + 1]>>)
           /\ WellFormed(storage_)
           /\ res.ret = call.pos

====
